---------------------------- MODULE Spec2Model ----------------------------
(***************************************************************************)
(* A model of the midistuff tools: the tempo <-> SysEx codec               *)
(* (tempo_to_sysex.py), the tempo timeline extractor and timestamp         *)
(* formatter (extract_tempo_events.py), the SysEx sender (send_sysex.py)   *)
(* and the interactive tempo sender (tempo_to_sysex_send.py).              *)
(*                                                                         *)
(* Each tool is a small state machine of its own; the module holds one     *)
(* specification per tool.  Bytes are integers 0..255, Python lists are    *)
(* sequences (Python index i is TLA+ index i+1), Python strings that the   *)
(* code builds are sequences of one-character strings.                     *)
(***************************************************************************)
EXTENDS Integers, Sequences, FiniteSets, TLC

VARIABLES
    \* A function called on its own (the codec, the checksum, the normaliser,
    \* the timestamp formatter):
    carg,             \* the call: the function's name and its argument
    cret,             \* what the call returned (or raised)
    cpc,              \* "call" before the call, "done" after it
    \* extract_tempo_events.main and the generator iter_tempo_events:
    mid,              \* the messages of the MIDI file, in playback order
    pos,              \* how many messages the generator has consumed
    elapsed_seconds,  \* the generator's accumulator, in ticks
    tempo_events,     \* the (elapsed, bpm) pairs yielded so far
    output_lines,     \* the lines main has printed for them
    report,           \* main's closing line ("": not printed yet)
    epc,              \* "iterate", "render" or "exit"
    \* send_sysex.main and tempo_to_sysex_send.main:
    prog,             \* which of the two programs runs
    pc,               \* the statement main is at
    ports,            \* the list list_output_ports returned
    tempo,            \* the tempo read_tempo returned (0: not bound yet)
    message,          \* the SysEx bytes to send (<<>>: not bound yet)
    choice,           \* the accepted port number (0: none yet)
    port_name,        \* the chosen port ("": not bound yet)
    opened,           \* the port names handed to mido.open_output
    sent,             \* the messages handed to port.send, with the port
    status            \* how the program ended ("": still running)

callVars == <<carg, cret, cpc>>
extractVars == <<mid, pos, elapsed_seconds, tempo_events, output_lines, report, epc>>
mainVars == <<prog, pc, ports, tempo, message, choice, port_name, opened, sent, status>>
vars == <<callVars, extractVars, mainVars>>

\* The variables of a tool that is not running.
CallIdle == carg = [fn |-> "none"] /\ cret = <<>> /\ cpc = "idle"
ExtractIdle ==
    /\ mid = <<>> /\ pos = 0 /\ elapsed_seconds = 0
    /\ tempo_events = <<>> /\ output_lines = <<>> /\ report = "" /\ epc = "idle"
MainIdle ==
    /\ prog = "none" /\ pc = "idle" /\ ports = <<>> /\ tempo = 0
    /\ message = <<>> /\ choice = 0 /\ port_name = "" /\ opened = <<>>
    /\ sent = <<>> /\ status = ""

(***************************************************************************)
(* Python's integer operators on the values the code applies them to.      *)
(***************************************************************************)

\* x ^ y for non-negative integers, bit by bit.
RECURSIVE BitXor(_, _)
BitXor(x, y) ==
    IF x = 0 /\ y = 0 THEN 0
    ELSE (((x % 2) + (y % 2)) % 2) + 2 * BitXor(x \div 2, y \div 2)

\* x & 0x7F: the low seven bits (two's complement for a negative x).
And7F(x) == x % 128

\* x >> 7: the arithmetic shift, floor(x / 128).
Shr7(x) == x \div 128

\* f"{byte:02X}": at least two upper-case hexadecimal digits.
HexDigit(d) == <<"0","1","2","3","4","5","6","7","8","9","A","B","C","D","E","F">>[d + 1]

RECURSIVE HexDigits(_)
HexDigits(n) == IF n < 16 THEN <<HexDigit(n)>> ELSE HexDigits(n \div 16) \o <<HexDigit(n % 16)>>

Hex02X(byte) == IF byte < 16 THEN <<"0", HexDigit(byte)>> ELSE HexDigits(byte)

\* " ".join(f"{byte:02X}" for byte in message)
RECURSIVE JoinHex(_)
JoinHex(bytes) ==
    IF bytes = <<>> THEN <<>>
    ELSE IF Len(bytes) = 1 THEN Hex02X(bytes[1])
    ELSE Hex02X(bytes[1]) \o <<" ">> \o JoinHex(Tail(bytes))

(***************************************************************************)
(* tempo_to_sysex.py                                                       *)
(***************************************************************************)
MIN_TEMPO == 10
MAX_TEMPO == 255

SYSEX_START == 240    \* 0xF0
SYSEX_END == 247      \* 0xF7

\* The fixed header that follows 0xF0: 0x00 0x01 0x74 0x11 0x14.
HEADER == <<0, 1, 116, 17, 20>>

\* A slip in the shift: the high part taken from bit 8 up.
tempo_to_sysex_bytes_Shift8(t) == [lsb |-> And7F(t), msb |-> And7F(Shr7(t) \div 2)]

tempo_to_sysex_bytes(t) == [lsb |-> And7F(t), msb |-> And7F(Shr7(t))]

\* reduce(lambda x, y: x ^ y, data) of a non-empty sequence.
RECURSIVE XorReduce(_)
XorReduce(data) ==
    IF Len(data) = 1 THEN data[1]
    ELSE BitXor(XorReduce(SubSeq(data, 1, Len(data) - 1)), data[Len(data)])

\* A slip in the mask: 0x3F for 0x7F.
calculate_checksum_Mask3F(data) ==
    IF data = <<>> THEN [raised |-> "ValueError", value |-> 0]
    ELSE [raised |-> "", value |-> XorReduce(data) % 64]

calculate_checksum(data) ==
    IF data = <<>> THEN [raised |-> "ValueError", value |-> 0]
    ELSE [raised |-> "", value |-> And7F(XorReduce(data))]

\* The checksum taken over the seven bytes after 0xF0 only.
build_sysex_message_ChecksumSkipsStart(t) ==
    LET b == tempo_to_sysex_bytes(t)
        body == HEADER \o <<b.lsb, b.msb>>
        checksum == calculate_checksum(body).value
    IN  <<SYSEX_START>> \o body \o <<checksum, SYSEX_END>>

\* The terminator forgotten.
build_sysex_message_NoTerminator(t) ==
    LET b == tempo_to_sysex_bytes(t)
        body == <<SYSEX_START>> \o HEADER \o <<b.lsb, b.msb>>
        checksum == calculate_checksum(body).value
    IN  body \o <<checksum>>

build_sysex_message(t) ==
    LET b == tempo_to_sysex_bytes(t)
        body == <<SYSEX_START>> \o HEADER \o <<b.lsb, b.msb>>
        checksum == calculate_checksum(body).value
    IN  body \o <<checksum, SYSEX_END>>

(***************************************************************************)
(* extract_tempo_events.py: BPM of a set_tempo message and its SysEx text  *)
(***************************************************************************)
MICROSECONDS_PER_MINUTE == 60000000

\* mido.tempo2bpm(message.tempo): 60e6 / tempo, kept as the exact fraction
\* num/den (the double the library returns is the nearest to it).
tempo2bpm(micros) == [num |-> MICROSECONDS_PER_MINUTE, den |-> micros]

\* int(round(bpm)): Python rounds to the nearest integer, halves to even.
\* (A BPM of n + 1/2 is exact in binary, so the tie is a real one.)
RoundHalfEven(q) ==
    LET lo == q.num \div q.den
        r == q.num % q.den
    IN  IF 2 * r < q.den THEN lo
        ELSE IF 2 * r > q.den THEN lo + 1
        ELSE IF lo % 2 = 0 THEN lo ELSE lo + 1

tempo_to_sysex_hex(bpm) ==
    LET t == RoundHalfEven(bpm)
        msg == build_sysex_message(t)
    IN  [raised |-> "", tempo |-> t, message |-> msg, text |-> JoinHex(msg)]

(***************************************************************************)
(* The codec called on its own: build_sysex_message(t) for an integer t,   *)
(* and tempo_to_sysex_hex(bpm) for the BPM of a set_tempo message.         *)
(***************************************************************************)
\* Integers tried as build_sysex_message's argument: 0 .. MAX_TEMPO + TempoSlack.
TempoSlack == 45

\* message.tempo values (microseconds per beat) tried: 8, 9.5, 10, 12.5,
\* 37.5, 120, 187.5, 254.5.., 255, 255.4.., 256, 300 and 312.5 BPM.
MicrosSamples ==
    {7500000, 6315789, 6000000, 4800000, 1600000, 500000, 320000, 235756,
     235294, 234834, 234375, 200000, 192000}

TempoArgs == 0 .. (MAX_TEMPO + TempoSlack)

CodecCalls ==
    [fn : {"build_sysex_message"}, tempo : TempoArgs, micros : {0}]
        \cup [fn : {"tempo_to_sysex_hex"}, tempo : {0}, micros : MicrosSamples]

CodecInit ==
    /\ carg \in CodecCalls
    /\ cret = <<>>
    /\ cpc = "call"
    /\ ExtractIdle /\ MainIdle

\* tempo_to_sysex.main after read_tempo: message = build_sysex_message(tempo),
\* printed as hex.
CallBuildSysexMessage ==
    /\ cpc = "call"
    /\ carg.fn = "build_sysex_message"
    /\ LET msg == build_sysex_message(carg.tempo)
       IN  cret' = [raised |-> "", tempo |-> carg.tempo, message |-> msg,
                    text |-> JoinHex(msg)]
    /\ cpc' = "done"
    /\ UNCHANGED <<carg, extractVars, mainVars>>

\* extract_tempo_events.main's loop body: sysex_hex = tempo_to_sysex_hex(bpm).
CallTempoToSysexHex ==
    /\ cpc = "call"
    /\ carg.fn = "tempo_to_sysex_hex"
    /\ cret' = tempo_to_sysex_hex(tempo2bpm(carg.micros))
    /\ cpc' = "done"
    /\ UNCHANGED <<carg, extractVars, mainVars>>

CodecNext == CallBuildSysexMessage \/ CallTempoToSysexHex

SpecCodec == CodecInit /\ [][CodecNext]_vars

(***************************************************************************)
(* Claims about the codec, checked under SpecCodec.                        *)
(***************************************************************************)
\* Bit k of a non-negative integer.
RECURSIVE Pow2(_)
Pow2(k) == IF k = 0 THEN 1 ELSE 2 * Pow2(k - 1)

BitOf(x, k) == (x \div Pow2(k)) % 2

\* How many of the bytes at the indices I of seq have bit k set.
RECURSIVE OnesAt(_, _, _)
OnesAt(seq, I, k) ==
    IF I = {} THEN 0
    ELSE LET i == CHOOSE j \in I : TRUE
         IN  BitOf(seq[i], k) + OnesAt(seq, I \ {i}, k)

\* c is the XOR of the bytes of seq at the indices I, masked to seven bits:
\* c < 128 and each of its bits 0..6 is the parity of that bit over the bytes.
IsXor7(c, seq, I) ==
    /\ c \in 0 .. 127
    /\ \A k \in 0 .. 6 : BitOf(c, k) = OnesAt(seq, I, k) % 2

\* A finished call whose tempo is one read_tempo accepts.
EncodedValid == cpc = "done" /\ cret.tempo \in MIN_TEMPO .. MAX_TEMPO

\* The frame has ten bytes, the header, and the tempo's two 7-bit parts.
FrameFields ==
    /\ Len(cret.message) = 10
    /\ SubSeq(cret.message, 2, 6) = <<0, 1, 116, 17, 20>>
    /\ cret.message[7] = cret.tempo % 128
    /\ cret.message[8] = (cret.tempo \div 128) % 128

DecodesTo(frame, I, t) ==
    /\ Len(frame) = 10 /\ frame[1] = 240 /\ frame[10] = 247
    /\ frame[7] \in 0 .. 127 /\ frame[8] \in 0 .. 127
    /\ frame[7] + 128 * frame[8] = t
    /\ IsXor7(frame[9], frame, I)

C3_OutOfRangeRejected ==
    (cpc = "done" /\ cret.tempo \notin MIN_TEMPO .. MAX_TEMPO) =>
        cret.raised = "OutOfRange" /\ cret.message = <<>>

\* C7: for every tempo in 10..255 the message has length 10, starts with
\* 0xF0, ends with 0xF7 and carries the header 0x00,0x01,0x74,0x11,0x14 at
\* indices 1..5.
C7_FrameShape ==
    EncodedValid =>
        /\ Len(cret.message) = 10
        /\ cret.message[1] = 240
        /\ cret.message[10] = 247
        /\ SubSeq(cret.message, 2, 6) = <<0, 1, 116, 17, 20>>

\* tempo_to_sysex_hex was called with 255 BPM and returned a ten-byte frame.
C7_Witness ==
    /\ cpc = "done" /\ carg.fn = "tempo_to_sysex_hex" /\ cret.tempo = 255
    /\ Len(cret.message) = 10

(***************************************************************************)
(* calculate_checksum called on its own: on a byte sequence, then on the   *)
(* same sequence with one bit of one byte flipped.                         *)
(***************************************************************************)
\* The longest byte sequence tried.
MaxDataLen == 3

\* Bytes tried: every bit position occurs set and clear.
ByteSamples == {0, 1, 85, 127, 128, 240, 247, 255}

SeqsUpTo(S, n) == UNION {[1 .. k -> S] : k \in 0 .. n}

\* The byte with its bit k inverted.
FlipBit(byte, k) == IF BitOf(byte, k) = 1 THEN byte - Pow2(k) ELSE byte + Pow2(k)

ChecksumInit ==
    /\ carg \in [fn : {"calculate_checksum"}, data : SeqsUpTo(ByteSamples, MaxDataLen)]
    /\ cret = <<>>
    /\ cpc = "call"
    /\ ExtractIdle /\ MainIdle

CallCalculateChecksum ==
    /\ cpc = "call"
    /\ carg.fn = "calculate_checksum"
    /\ cret' = [first |-> calculate_checksum(carg.data)]
    /\ cpc' = "done"
    /\ UNCHANGED <<carg, extractVars, mainVars>>

CallChecksumOfFlipped ==
    /\ cpc = "done"
    /\ carg.fn = "calculate_checksum"
    /\ cret.first.raised = ""
    /\ \E i \in 1 .. Len(carg.data), k \in 0 .. 7 :
          LET flipped == [carg.data EXCEPT ![i] = FlipBit(@, k)]
          IN  cret' = [first |-> cret.first, idx |-> i, bit |-> k,
                       second |-> calculate_checksum(flipped)]
    /\ cpc' = "flipped"
    /\ UNCHANGED <<carg, extractVars, mainVars>>

ChecksumNext == CallCalculateChecksum \/ CallChecksumOfFlipped

SpecChecksum == ChecksumInit /\ [][ChecksumNext]_vars

\* C6 as stated: for every non-empty byte sequence and every bit position of
\* any of its bytes, flipping that one bit changes calculate_checksum.
C6_AnyBitFlipChangesChecksum ==
    cpc = "flipped" =>
        /\ cret.second.raised = ""
        /\ cret.second.value # cret.first.value

\* C6 amended: flipping one of the bits 0..6 of any byte changes the checksum
\* (in exactly that bit); flipping bit 7 leaves it unchanged.
C6_LowSevenBitFlipsChangeChecksum ==
    cpc = "flipped" =>
        /\ cret.second.raised = ""
        /\ cret.bit \in 0 .. 6 =>
              /\ cret.second.value # cret.first.value
              /\ cret.second.value = FlipBit(cret.first.value, cret.bit)
        /\ cret.bit = 7 => cret.second.value = cret.first.value

\* Bit 6 of the second byte of <<0xF0, 0x01>> was flipped.
C6_Witness ==
    /\ cpc = "flipped" /\ carg.data = <<240, 1>>
    /\ cret.idx = 2 /\ cret.bit = 6
    /\ cret.first.value = 113 /\ cret.second.value = 49

(***************************************************************************)
(* send_sysex.py: prepare_sysex_payload, called on its own and then on its *)
(* own result.                                                             *)
(***************************************************************************)
\* Strips the first byte whatever it is.
prepare_sysex_payload_DropsFirst(bytes_in) ==
    IF bytes_in = <<>> THEN [raised |-> "IndexError", data |-> <<>>]
    ELSE LET d1 == Tail(bytes_in)
             d2 == IF d1 # <<>> /\ d1[Len(d1)] = SYSEX_END
                   THEN SubSeq(d1, 1, Len(d1) - 1) ELSE d1
         IN  [raised |-> "", data |-> d2]

\* Strips a trailing 0xF7 only.
prepare_sysex_payload_KeepsStart(bytes_in) ==
    IF bytes_in = <<>> THEN [raised |-> "IndexError", data |-> <<>>]
    ELSE [raised |-> "",
          data |-> IF bytes_in[Len(bytes_in)] = SYSEX_END
                   THEN SubSeq(bytes_in, 1, Len(bytes_in) - 1) ELSE bytes_in]

\* data[0] of an empty list raises IndexError.
prepare_sysex_payload(bytes_in) ==
    IF bytes_in = <<>> THEN [raised |-> "IndexError", data |-> <<>>]
    ELSE LET d1 == IF bytes_in[1] = SYSEX_START THEN Tail(bytes_in) ELSE bytes_in
             d2 == IF d1 # <<>> /\ d1[Len(d1)] = SYSEX_END
                   THEN SubSeq(d1, 1, Len(d1) - 1) ELSE d1
         IN  [raised |-> "", data |-> d2]

\* The longest SysEx byte list tried.
MaxBytesLen == 4

\* Bytes tried: the two delimiters and two data bytes.
FrameBytes == {240, 247, 0, 20}

NonEmptyByteLists == SeqsUpTo(FrameBytes, MaxBytesLen) \ {<<>>}

NormalizeInit ==
    /\ carg \in [fn : {"prepare_sysex_payload"}, data : NonEmptyByteLists]
    /\ cret = <<>>
    /\ cpc = "call"
    /\ ExtractIdle /\ MainIdle

CallPrepareSysexPayload ==
    /\ cpc = "call"
    /\ carg.fn = "prepare_sysex_payload"
    /\ cret' = [once |-> prepare_sysex_payload(carg.data)]
    /\ cpc' = "done"
    /\ UNCHANGED <<carg, extractVars, mainVars>>

CallPrepareSysexPayloadAgain ==
    /\ cpc = "done"
    /\ carg.fn = "prepare_sysex_payload"
    /\ cret' = [once |-> cret.once, twice |-> prepare_sysex_payload(cret.once.data)]
    /\ cpc' = "again"
    /\ UNCHANGED <<carg, extractVars, mainVars>>

NormalizeNext == CallPrepareSysexPayload \/ CallPrepareSysexPayloadAgain

SpecNormalize == NormalizeInit /\ [][NormalizeNext]_vars

\* C4 as stated: for every non-empty byte sequence b the second application
\* completes and prepare(prepare(b)) = prepare(b).
C4_NormalizeIdempotent ==
    cpc = "again" =>
        /\ cret.twice.raised = ""
        /\ cret.twice.data = cret.once.data

\* C4 amended: for every non-empty b whose prepare(b) is non-empty, does not
\* start with 0xF0 and does not end with 0xF7, the second application
\* completes and prepare(prepare(b)) = prepare(b).
C4_NormalizeIdempotentOnSingleFrame ==
    (/\ cpc = "again"
     /\ cret.once.data # <<>>
     /\ cret.once.data[1] # 240
     /\ cret.once.data[Len(cret.once.data)] # 247) =>
        /\ cret.twice.raised = ""
        /\ cret.twice.data = cret.once.data

\* F0 00 14 F7 was normalised to 00 14, and 00 14 normalised again.
C4_Witness ==
    /\ cpc = "again" /\ carg.data = <<240, 0, 20, 247>>
    /\ cret.once.data = <<0, 20>> /\ cret.twice.data = <<0, 20>>

(***************************************************************************)
(* extract_tempo_events.py: format_timestamp.                              *)
(*                                                                         *)
(* A time in seconds is a whole number of ticks, TicksPerMs ticks to the   *)
(* millisecond.  The code works on doubles: a time that lies exactly       *)
(* halfway between two milliseconds has no exact double, and round() then  *)
(* goes up or down as the nearest double happens to lie (CPython gives     *)
(* 999 for 59.9995 and 1000 for 0.9995), so at such a tie the model takes  *)
(* either neighbour (tie_up).  Everywhere else the rounding is exact.      *)
(***************************************************************************)
\* The resolution of the modelled times: ticks per millisecond.
TicksPerMs == 10

TicksPerSecond == 1000 * TicksPerMs

DecDigit(d) == <<"0","1","2","3","4","5","6","7","8","9">>[d + 1]

RECURSIVE DecDigits(_)
DecDigits(n) == IF n < 10 THEN <<DecDigit(n)>> ELSE DecDigits(n \div 10) \o <<DecDigit(n % 10)>>

\* f"{n:0{width}d}": the decimal digits, zero-padded on the left to width.
RECURSIVE ZeroPad(_, _)
ZeroPad(digits, width) == IF Len(digits) >= width THEN digits ELSE ZeroPad(<<"0">> \o digits, width)

FormatD(n, width) == ZeroPad(DecDigits(n), width)

\* int(round(frac * 1000)) of a fraction of a second given in ticks.
RoundMilliseconds(frac, tie_up) ==
    LET lo == frac \div TicksPerMs
        r == frac % TicksPerMs
    IN  IF 2 * r < TicksPerMs THEN lo
        ELSE IF 2 * r > TicksPerMs THEN lo + 1
        ELSE IF tie_up THEN lo + 1 ELSE lo

\* The carry into the minutes forgotten: seconds may read 60.
format_timestamp_NoMinuteCarry(seconds, tie_up) ==
    LET minutes == seconds \div (60 * TicksPerSecond)
        remaining_seconds == seconds - minutes * 60 * TicksPerSecond
        sec == remaining_seconds \div TicksPerSecond
        milliseconds == RoundMilliseconds(remaining_seconds - sec * TicksPerSecond, tie_up)
        carry == milliseconds = 1000
    IN  FormatD(minutes, 2) \o <<":">>
            \o FormatD(IF carry THEN sec + 1 ELSE sec, 2) \o <<".">>
            \o FormatD(IF carry THEN 0 ELSE milliseconds, 3)

format_timestamp(seconds, tie_up) ==
    LET minutes == seconds \div (60 * TicksPerSecond)
        remaining_seconds == seconds - minutes * 60 * TicksPerSecond
        sec == remaining_seconds \div TicksPerSecond
        milliseconds == RoundMilliseconds(remaining_seconds - sec * TicksPerSecond, tie_up)
        carry == milliseconds = 1000
        carry2 == carry /\ sec + 1 = 60
    IN  FormatD(IF carry2 THEN minutes + 1 ELSE minutes, 2) \o <<":">>
            \o FormatD(IF carry2 THEN 0 ELSE IF carry THEN sec + 1 ELSE sec, 2) \o <<".">>
            \o FormatD(IF carry THEN 0 ELSE milliseconds, 3)

\* Times tried: every tick of the seconds SecondSamples of the minutes
\* MinuteSamples.
MinuteSamples == {0, 1, 59, 99}
SecondSamples == {0, 1, 58, 59}

TimestampArgs ==
    {(m * 60 + sc) * TicksPerSecond + f :
        m \in MinuteSamples, sc \in SecondSamples, f \in 0 .. (TicksPerSecond - 1)}

TimestampInit ==
    /\ carg \in [fn : {"format_timestamp"}, seconds : TimestampArgs]
    /\ cret = <<>>
    /\ cpc = "call"
    /\ ExtractIdle /\ MainIdle

CallFormatTimestamp ==
    /\ cpc = "call"
    /\ carg.fn = "format_timestamp"
    /\ \E tie_up \in BOOLEAN : cret' = [text |-> format_timestamp(carg.seconds, tie_up)]
    /\ cpc' = "done"
    /\ UNCHANGED <<carg, extractVars, mainVars>>

TimestampNext == CallFormatTimestamp

SpecTimestamp == TimestampInit /\ [][TimestampNext]_vars

\* Reading a timestamp back: the fields of "M..MM:SS.mmm".
DigitValue(c) == CHOOSE d \in 0 .. 9 : DecDigit(d) = c

RECURSIVE DecValue(_)
DecValue(digits) ==
    IF digits = <<>> THEN 0
    ELSE 10 * DecValue(SubSeq(digits, 1, Len(digits) - 1)) + DigitValue(digits[Len(digits)])

IsDigits(cs) == \A i \in 1 .. Len(cs) : \E d \in 0 .. 9 : DecDigit(d) = cs[i]

WellFormedTimestamp(text) ==
    /\ Len(text) >= 9
    /\ text[Len(text) - 3] = "." /\ text[Len(text) - 6] = ":"
    /\ IsDigits(SubSeq(text, 1, Len(text) - 7))
    /\ IsDigits(SubSeq(text, Len(text) - 5, Len(text) - 4))
    /\ IsDigits(SubSeq(text, Len(text) - 2, Len(text)))

FieldMM(text) == DecValue(SubSeq(text, 1, Len(text) - 7))
FieldSS(text) == DecValue(SubSeq(text, Len(text) - 5, Len(text) - 4))
FieldMs(text) == DecValue(SubSeq(text, Len(text) - 2, Len(text)))

\* The timestamp reads whole seconds w and ms milliseconds, minutes unwrapped.
Reads(text, w, ms) ==
    /\ FieldMM(text) = w \div 60
    /\ FieldSS(text) = w % 60
    /\ FieldMs(text) = ms

\* The fields are in range, and the timestamp is the time rounded to the
\* nearest millisecond with the carries made: a fraction above 999.5 ms
\* reads as the next whole second and 000; a fraction of exactly 999.5 ms
\* reads as that or as 999; at any other tie either neighbour.
TimestampCarries(seconds, text) ==
    LET w == seconds \div TicksPerSecond
        frac == seconds % TicksPerSecond
        lo == frac \div TicksPerMs
        r == frac % TicksPerMs
    IN  /\ WellFormedTimestamp(text)
        /\ FieldSS(text) \in 0 .. 59
        /\ FieldMs(text) \in 0 .. 999
        /\ 2 * r < TicksPerMs => Reads(text, w, lo)
        /\ (2 * r > TicksPerMs /\ lo < 999) => Reads(text, w, lo + 1)
        /\ (2 * r > TicksPerMs /\ lo = 999) => Reads(text, w + 1, 0)
        /\ (2 * r = TicksPerMs /\ lo < 999) => Reads(text, w, lo) \/ Reads(text, w, lo + 1)
        /\ (2 * r = TicksPerMs /\ lo = 999) => Reads(text, w, lo) \/ Reads(text, w + 1, 0)

\* The time is whole seconds w, whole milliseconds ms and tenths/10 of a
\* millisecond.
IsTime(seconds, w, ms, tenths) ==
    /\ seconds \div TicksPerMs = w * 1000 + ms
    /\ (seconds % TicksPerMs) * 10 = tenths * TicksPerMs

\* C9 as stated: 0 <= SS <= 59 and 0 <= mmm <= 999 for every time; 1000 ms
\* resets to 000 and carries into the seconds, seconds 60 reset to 00 and
\* carry into the minutes, which are never wrapped; 59.9995 gives
\* "01:00.000".
C9_CarryWithTieExample ==
    cpc = "done" =>
        /\ TimestampCarries(carg.seconds, cret.text)
        /\ IsTime(carg.seconds, 59, 999, 5) =>
              cret.text = <<"0", "1", ":", "0", "0", ".", "0", "0", "0">>

\* C9 amended: the same invariant and carry rule, with an example that is
\* no rounding tie: 59.9996 gives "01:00.000".  A time exactly halfway
\* between two milliseconds, such as 59.9995, may round either way.
C9_CarryAwayFromTies ==
    cpc = "done" =>
        /\ TimestampCarries(carg.seconds, cret.text)
        /\ IsTime(carg.seconds, 59, 999, 6) =>
              cret.text = <<"0", "1", ":", "0", "0", ".", "0", "0", "0">>

\* 59:59.9997 was formatted: both carries were made and the minutes read 60.
C9_Witness ==
    /\ cpc = "done"
    /\ IsTime(carg.seconds, 59 * 60 + 59, 999, 7)
    /\ cret.text = <<"6", "0", ":", "0", "0", ".", "0", "0", "0">>

(***************************************************************************)
(* extract_tempo_events.py: main and the generator iter_tempo_events.      *)
(* A message is [time, type, tempo]: the delta in ticks, the kind, and for *)
(* a set_tempo message the microseconds per beat (0 otherwise).            *)
(***************************************************************************)
\* The most messages a file holds, and the largest delta in DeltaUnits.
MaxEvents == 3
MaxDelta == 2

\* Deltas are multiples of 2.5 s.
DeltaUnit == 2500 * TicksPerMs

Messages ==
    [time : {d * DeltaUnit : d \in 0 .. MaxDelta}, type : {"note_on"}, tempo : {0}]
        \cup [time : {d * DeltaUnit : d \in 0 .. MaxDelta}, type : {"set_tempo"},
              tempo : {500000, 200000}]

ExtractInit ==
    /\ mid \in SeqsUpTo(Messages, MaxEvents)
    /\ pos = 0
    /\ elapsed_seconds = 0
    /\ tempo_events = <<>>
    /\ output_lines = <<>>
    /\ report = ""
    /\ epc = "iterate"
    /\ CallIdle /\ MainIdle

\* The kind tested before the delta is added: the event's own delta is left
\* out of its time.
IterTempoEventsNext_YieldBeforeAdd ==
    /\ epc = "iterate"
    /\ pos < Len(mid)
    /\ LET m == mid[pos + 1]
       IN  /\ elapsed_seconds' = elapsed_seconds + m.time
           /\ tempo_events' =
                  IF m.type = "set_tempo"
                  THEN Append(tempo_events,
                              [elapsed |-> elapsed_seconds, bpm |-> tempo2bpm(m.tempo)])
                  ELSE tempo_events
    /\ pos' = pos + 1
    /\ UNCHANGED <<mid, output_lines, report, epc, callVars, mainVars>>

\* One turn of iter_tempo_events' loop, driven by list() in main.
IterTempoEventsNext ==
    /\ epc = "iterate"
    /\ pos < Len(mid)
    /\ LET m == mid[pos + 1]
           elapsed == elapsed_seconds + m.time
       IN  /\ elapsed_seconds' = elapsed
           /\ tempo_events' =
                  IF m.type = "set_tempo"
                  THEN Append(tempo_events, [elapsed |-> elapsed, bpm |-> tempo2bpm(m.tempo)])
                  ELSE tempo_events
    /\ pos' = pos + 1
    /\ UNCHANGED <<mid, output_lines, report, epc, callVars, mainVars>>

\* The file is exhausted: list() returns, and main ends at once when there
\* is no tempo event.
IterTempoEventsExhausted ==
    /\ epc = "iterate"
    /\ pos = Len(mid)
    /\ IF tempo_events = <<>>
       THEN epc' = "exit" /\ report' = "Tempo events: 0, Output lines: 0 (OK)"
       ELSE epc' = "render" /\ report' = report
    /\ UNCHANGED <<mid, pos, elapsed_seconds, tempo_events, output_lines, callVars, mainVars>>

\* One turn of main's loop over tempo_events.
RenderLine ==
    /\ epc = "render"
    /\ Len(output_lines) < Len(tempo_events)
    /\ LET e == tempo_events[Len(output_lines) + 1]
       IN  \E tie_up \in BOOLEAN :
              output_lines' =
                  Append(output_lines,
                         [timestamp |-> format_timestamp(e.elapsed, tie_up),
                          sysex_hex |-> tempo_to_sysex_hex(e.bpm).text])
    /\ UNCHANGED <<mid, pos, elapsed_seconds, tempo_events, report, epc, callVars, mainVars>>

\* main's closing line.
RenderDone ==
    /\ epc = "render"
    /\ Len(output_lines) = Len(tempo_events)
    /\ report' = "Tempo events: n, Output lines: n (OK)"
    /\ epc' = "exit"
    /\ UNCHANGED <<mid, pos, elapsed_seconds, tempo_events, output_lines, callVars, mainVars>>

ExtractNext ==
    \/ IterTempoEventsNext
    \/ IterTempoEventsExhausted
    \/ RenderLine
    \/ RenderDone

SpecExtract == ExtractInit /\ [][ExtractNext]_vars

\* The sum of the deltas of the first n messages.
RECURSIVE DeltaSum(_)
DeltaSum(n) == IF n = 0 THEN 0 ELSE DeltaSum(n - 1) + mid[n].time

\* The places of the tempo changes among the first n messages.
TempoPlaces(n) == {i \in 1 .. n : mid[i].type = "set_tempo"}

\* The place of the k-th tempo change.
TempoPlace(k) ==
    CHOOSE i \in TempoPlaces(Len(mid)) : Cardinality(TempoPlaces(i)) = k

\* C8: the pairs yielded after pos messages are, in source order, one per
\* tempo change among them, each with the sum of all deltas up to and
\* including its own message and the BPM 60000000 / tempo; the times are
\* non-decreasing; a file without tempo changes ends with nothing yielded
\* and the closing line "... 0 (OK)".
C8_TimelineExtraction ==
    /\ epc # "idle" =>
          /\ Len(tempo_events) = Cardinality(TempoPlaces(pos))
          /\ \A k \in 1 .. Len(tempo_events) :
                /\ tempo_events[k].elapsed = DeltaSum(TempoPlace(k))
                /\ tempo_events[k].bpm = [num |-> 60000000, den |-> mid[TempoPlace(k)].tempo]
          /\ \A k \in 1 .. Len(tempo_events) - 1 :
                tempo_events[k].elapsed <= tempo_events[k + 1].elapsed
    /\ epc \in {"render", "exit"} => pos = Len(mid)
    /\ (epc = "exit" /\ TempoPlaces(Len(mid)) = {}) =>
          /\ tempo_events = <<>> /\ output_lines = <<>>
          /\ report = "Tempo events: 0, Output lines: 0 (OK)"

\* A file of a note, a tempo change 2.5 s later and another 5 s after that
\* was read to its end: two pairs, at 2.5 s and 7.5 s.
C8_Witness ==
    /\ epc = "exit" /\ Len(mid) = 3
    /\ mid[1].type = "note_on" /\ mid[1].time = 0
    /\ mid[2].type = "set_tempo" /\ mid[2].time = DeltaUnit /\ mid[2].tempo = 500000
    /\ mid[3].type = "set_tempo" /\ mid[3].time = 2 * DeltaUnit
    /\ Len(tempo_events) = 2
    /\ tempo_events[1].elapsed = DeltaUnit /\ tempo_events[2].elapsed = 3 * DeltaUnit
    /\ output_lines[1].timestamp = <<"0", "0", ":", "0", "2", ".", "5", "0", "0">>

(***************************************************************************)
(* send_sysex.main and tempo_to_sysex_send.main.                           *)
(*                                                                         *)
(* A line typed at a prompt is taken by what the code makes of it:         *)
(*   "eof"    input() raises EOFError                                      *)
(*   "empty"  the stripped line is empty                                   *)
(*   "text"   not a number (int() raises, isdigit() is false)              *)
(*   "int"    an integer n                                                 *)
(*   "digit"  isdigit() is true but int() raises ValueError (e.g. a        *)
(*            superscript two)                                             *)
(*   "bytes"  parse_sysex_input returns the byte list b                    *)
(***************************************************************************)
\* The most output ports the system lists.
MaxPorts == 2

PortNames == {"IAC Bus 1", "FM3 MIDI Out"}

PortLists == SeqsUpTo(PortNames, MaxPorts)

\* The upper bound of the range dropped.
TempoAccepted_NoUpperBound(n) == MIN_TEMPO <= n

\* read_tempo's range test.
TempoAccepted(n) == MIN_TEMPO <= n /\ n <= MAX_TEMPO

\* prompt_port_choice's range test.
ChoiceAccepted(n, port_list) == 1 <= n /\ n <= Len(port_list)

MainInit ==
    /\ prog \in {"send_sysex", "tempo_to_sysex_send"}
    /\ pc = "list_output_ports"
    /\ ports = <<>>
    /\ tempo = 0
    /\ message = <<>>
    /\ choice = 0
    /\ port_name = ""
    /\ opened = <<>>
    /\ sent = <<>>
    /\ status = ""
    /\ CallIdle /\ ExtractIdle

\* ports = list_output_ports(), and main's two early exits.
ListOutputPorts ==
    /\ pc = "list_output_ports"
    /\ \/ /\ pc' = "exit"
          /\ status' = "RuntimeError"
          /\ UNCHANGED ports
       \/ \E port_list \in PortLists :
             /\ ports' = port_list
             /\ IF port_list = <<>>
                THEN pc' = "exit" /\ status' = "no ports"
                ELSE /\ pc' = IF prog = "send_sysex" THEN "prompt_port_choice" ELSE "read_tempo"
                     /\ status' = status
    /\ UNCHANGED <<prog, tempo, message, choice, port_name, opened, sent, callVars, extractVars>>

\* One turn of read_tempo's loop; on an accepted tempo main goes on to build
\* and print the message.
ReadTempo ==
    /\ prog = "tempo_to_sysex_send"
    /\ pc = "read_tempo"
    /\ \/ /\ pc' = "exit"
          /\ status' = "eof"
          /\ UNCHANGED <<tempo, message>>
       \/ \E kind \in {"empty", "text"} : UNCHANGED <<pc, status, tempo, message>>
       \/ \E n \in TempoArgs :
             IF TempoAccepted(n)
             THEN /\ tempo' = n
                  /\ message' = build_sysex_message(n)
                  /\ pc' = "prompt_port_choice"
                  /\ status' = status
             ELSE UNCHANGED <<pc, status, tempo, message>>
    /\ UNCHANGED <<prog, ports, choice, port_name, opened, sent, callVars, extractVars>>

\* One turn of prompt_port_choice's loop.
PromptPortChoice ==
    /\ pc = "prompt_port_choice"
    /\ \/ /\ pc' = "exit"
          /\ status' = "eof"
          /\ UNCHANGED <<choice, port_name>>
       \/ \E kind \in {"empty", "text"} : UNCHANGED <<pc, status, choice, port_name>>
       \/ /\ pc' = "exit"
          /\ status' = "uncaught ValueError"
          /\ UNCHANGED <<choice, port_name>>
       \/ \E n \in 0 .. (Len(ports) + 1) :
             IF ChoiceAccepted(n, ports)
             THEN /\ choice' = n
                  /\ port_name' = ports[n]
                  /\ pc' = IF prog = "send_sysex" THEN "prompt_sysex_message" ELSE "send_sysex"
                  /\ status' = status
             ELSE UNCHANGED <<pc, status, choice, port_name>>
    /\ UNCHANGED <<prog, ports, tempo, message, opened, sent, callVars, extractVars>>

\* One turn of prompt_sysex_message's loop.
PromptSysexMessage ==
    /\ prog = "send_sysex"
    /\ pc = "prompt_sysex_message"
    /\ \/ /\ pc' = "exit"
          /\ status' = "eof"
          /\ UNCHANGED message
       \/ \E kind \in {"empty", "text"} : UNCHANGED <<pc, status, message>>
       \/ \E b \in NonEmptyByteLists :
             /\ message' = b
             /\ pc' = "send_sysex"
             /\ status' = status
    /\ UNCHANGED <<prog, ports, tempo, choice, port_name, opened, sent, callVars, extractVars>>

\* send_sysex(port_name, message) and main's handling of what it raises.
\* The port may fail to open, or fail while sending.
SendSysex ==
    /\ pc = "send_sysex"
    /\ LET payload == prepare_sysex_payload(message)
       IN  IF payload.raised # ""
           THEN status' = "uncaught IndexError" /\ UNCHANGED <<opened, sent>>
           ELSE IF payload.data = <<>>
           THEN status' = "ValueError: empty payload" /\ UNCHANGED <<opened, sent>>
           ELSE \E io \in {"ok", "open fails", "send fails"} :
                  /\ opened' = Append(opened, port_name)
                  /\ sent' = IF io = "open fails" THEN sent
                             ELSE Append(sent, [port |-> port_name, data |-> payload.data])
                  /\ status' = IF io = "ok" THEN "sent" ELSE "IOError"
    /\ pc' = "exit"
    /\ UNCHANGED <<prog, ports, tempo, message, choice, port_name, callVars, extractVars>>

\* Ctrl-C at a prompt ends either program.
KeyboardInterrupt ==
    /\ pc \in {"read_tempo", "prompt_port_choice", "prompt_sysex_message"}
    /\ pc' = "exit"
    /\ status' = "KeyboardInterrupt"
    /\ UNCHANGED <<prog, ports, tempo, message, choice, port_name, opened, sent,
                   callVars, extractVars>>

MainNext ==
    \/ ListOutputPorts
    \/ ReadTempo
    \/ PromptPortChoice
    \/ PromptSysexMessage
    \/ SendSysex
    \/ KeyboardInterrupt

SpecMain == MainInit /\ [][MainNext]_vars

\* The byte lists that are delimiters and nothing else.
OnlyDelimiters == {<<240>>, <<247>>, <<240, 247>>}

\* C5: a byte list made of delimiters only ends send_sysex with the
\* empty-payload error, no port opened and nothing sent; and whatever is
\* handed to a port has a non-empty payload.
C5_EmptyPayloadRejected ==
    /\ \A i \in 1 .. Len(sent) : sent[i].data # <<>>
    /\ (pc = "exit" /\ message \in OnlyDelimiters) =>
          /\ status = "ValueError: empty payload"
          /\ opened = <<>>
          /\ sent = <<>>

\* send_sysex was called with F0 F7 on the second port and refused it.
C5_Witness ==
    /\ prog = "send_sysex" /\ pc = "exit"
    /\ message = <<240, 247>> /\ choice = 2
    /\ status = "ValueError: empty payload"
    /\ opened = <<>> /\ sent = <<>>

\* C10: in tempo_to_sysex_send at most one message is sent, and only with a
\* non-empty port list, a tempo in 10..255 that read_tempo returned, and the
\* port named by a selection in 1..len(ports); past read_tempo the tempo is
\* in 10..255; an empty port list, a failed enumeration or the end of input
\* ends the program with nothing opened or sent.
C10_SendOnlyValidatedOnce ==
    prog = "tempo_to_sysex_send" =>
        /\ Len(sent) <= 1
        /\ Len(opened) <= 1
        /\ opened # <<>> =>
              /\ ports # <<>>
              /\ tempo \in 10 .. 255
              /\ choice \in 1 .. Len(ports)
              /\ opened[1] = ports[choice]
        /\ sent # <<>> =>
              /\ opened # <<>>
              /\ sent[1].port = opened[1]
              /\ Len(sent[1].data) = 8
              /\ SubSeq(sent[1].data, 1, 5) = <<0, 1, 116, 17, 20>>
              /\ sent[1].data[6] + 128 * sent[1].data[7] = tempo
        /\ pc \in {"prompt_port_choice", "send_sysex"} => tempo \in 10 .. 255
        /\ pc = "send_sysex" => choice \in 1 .. Len(ports)
        /\ status \in {"no ports", "RuntimeError", "eof", "KeyboardInterrupt",
                        "uncaught ValueError"} =>
              opened = <<>> /\ sent = <<>>

\* Tempo 200 was sent to the second of two ports.
C10_Witness ==
    /\ prog = "tempo_to_sysex_send" /\ pc = "exit" /\ status = "sent"
    /\ Len(ports) = 2 /\ choice = 2 /\ tempo = 200
    /\ Len(sent) = 1 /\ sent[1].port = ports[2]
    /\ sent[1].data = <<0, 1, 116, 17, 20, 72, 1, 73>>

====
